---- MODULE Spec2Model ----
(***************************************************************************)
(* The forwarding gateway of app.py: the status cache LOCAL_BOT_STATUS,    *)
(* its refresh check_whatsapp_api_status, the forwarding client            *)
(* send_to_whatsapp_api, the six send handlers and the status, health,     *)
(* index and /api handlers, run by concurrently scheduled request threads. *)
(* A thread is interleaved with the others at every access of the shared   *)
(* cache and at every HTTP call; the code between two such points is       *)
(* thread-local and is taken in one step.                                  *)
(*                                                                         *)
(* Strings that the code inspects (phone numbers, file names) are          *)
(* sequences of one-character strings; messages built with f-strings are   *)
(* sequences of their parts.                                               *)
(***************************************************************************)
EXTENDS Integers, Sequences, FiniteSets, TLC

VARIABLES LOCAL_BOT_STATUS, backend, now, window, torn,
          pc, handler, inp, gate, probe, calls, upstream, forwarded, observed,
          resp, UPLOAD_FOLDER, staged, unit, api_key, headers, refreshed

vars == <<LOCAL_BOT_STATUS, backend, now, window, torn,
          pc, handler, inp, gate, probe, calls, upstream, forwarded, observed,
          resp, UPLOAD_FOLDER, staged, unit, api_key, headers, refreshed>>

\* ------------------------------------------------------------------ bounds

\* Largest value of the logical clock behind datetime.now(); 0 stands for
\* last_check = None.
MaxTime == 2

\* Longest run of digits in the phone strings given to format_phone_number.
MaxDigits == 16

\* The request threads that run handlers concurrently.
Workers == {"t1", "t2"}

\* --------------------------------------------------------- configuration

WHATSAPP_API_BASE_URL == "http://IP-API:5000"

TimeoutSeconds == 30

MAX_CONTENT_LENGTH == 64 * 1024 * 1024

MediaTypes == {"images", "documents", "audio", "video", "stickers"}

\* ------------------------------------------------------- string helpers

Digits == {"0", "1", "2", "3", "4", "5", "6", "7", "8", "9"}

UpperCase == {"A", "B", "C", "D", "E", "F", "G", "H", "I", "J", "K", "L", "M",
              "N", "O", "P", "Q", "R", "S", "T", "U", "V", "W", "X", "Y", "Z"}

LowerCase == {"a", "b", "c", "d", "e", "f", "g", "h", "i", "j", "k", "l", "m",
              "n", "o", "p", "q", "r", "s", "t", "u", "v", "w", "x", "y", "z"}

UpperLetters == <<"A", "B", "C", "D", "E", "F", "G", "H", "I", "J", "K", "L", "M",
                  "N", "O", "P", "Q", "R", "S", "T", "U", "V", "W", "X", "Y", "Z">>

LowerLetters == <<"a", "b", "c", "d", "e", "f", "g", "h", "i", "j", "k", "l", "m",
                  "n", "o", "p", "q", "r", "s", "t", "u", "v", "w", "x", "y", "z">>

\* str.lower() on one character.
LowerChar(c) ==
  IF c \in UpperCase
  THEN LowerLetters[CHOOSE i \in 1..Len(UpperLetters) : UpperLetters[i] = c]
  ELSE c

Lower(s) == [i \in 1..Len(s) |-> LowerChar(s[i])]

StartsWith(s, p) == Len(s) >= Len(p) /\ SubSeq(s, 1, Len(p)) = p

Contains(s, c) == \E i \in 1..Len(s) : s[i] = c

\* Index of the last occurrence of c in s (0 when there is none).
LastIndexOf(s, c) ==
  IF Contains(s, c) THEN CHOOSE i \in 1..Len(s) :
                            s[i] = c /\ \A j \in (i + 1)..Len(s) : s[j] # c
  ELSE 0

\* s.rsplit(c, 1)[1] for a string that contains c.
RSplitLast(s, c) == SubSeq(s, LastIndexOf(s, c) + 1, Len(s))

\* s.strip(chars)
RECURSIVE LStrip(_, _)
LStrip(s, chars) ==
  IF s # <<>> /\ Head(s) \in chars THEN LStrip(Tail(s), chars) ELSE s

RECURSIVE RStrip(_, _)
RStrip(s, chars) ==
  IF s # <<>> /\ s[Len(s)] \in chars THEN RStrip(SubSeq(s, 1, Len(s) - 1), chars)
  ELSE s

Strip(s, chars) == RStrip(LStrip(s, chars), chars)

\* ---------------------------------------------------- format_phone_number

\* The characters the pattern \d matches in a str: the decimal digits of
\* every script. "U+0663" stands for one character, ARABIC-INDIC DIGIT THREE.
DecimalDigits == Digits \cup {"U+0663"}

\* re.sub(r'\D', '', phone)
StripNonDigits(phone) == SelectSeq(phone, LAMBDA c : c \in DecimalDigits)

PhoneDigitsAlwaysPrefixed(phone) ==
  LET d == StripNonDigits(phone)
  IN  IF StartsWith(d, <<"0">>) THEN <<"6", "2">> \o Tail(d) ELSE <<"6", "2">> \o d

\* The digit string after the 0 -> 62 / prepend-62 rule, before the length
\* check.
PhoneDigits(phone) ==
  LET d == StripNonDigits(phone)
  IN  IF StartsWith(d, <<"0">>) THEN <<"6", "2">> \o Tail(d)
      ELSE IF ~StartsWith(d, <<"6", "2">>) THEN <<"6", "2">> \o d
      ELSE d

format_phone_number_counting_raw_digits(phone) ==
  LET p == PhoneDigits(phone)
      d == StripNonDigits(phone)
  IN  IF Len(d) < 10 \/ Len(d) > 15
      THEN [ok |-> FALSE, value |-> <<"Invalid phone number format">>]
      ELSE [ok |-> TRUE, value |-> p]

\* ok = FALSE stands for ValueError("Invalid phone number format").
format_phone_number(phone) ==
  LET p == PhoneDigits(phone)
  IN  IF Len(p) < 10 \/ Len(p) > 15
      THEN [ok |-> FALSE, value |-> <<"Invalid phone number format">>]
      ELSE [ok |-> TRUE, value |-> p]

\* ------------------------------------------------------ media policy table

\* SUPPORTED_FORMATS[media_type]
SUPPORTED_FORMATS(media_type) ==
  CASE media_type = "images" ->
        {<<"j", "p", "g">>,
         <<"j", "p", "e", "g">>,
         <<"p", "n", "g">>,
         <<"g", "i", "f">>,
         <<"w", "e", "b", "p">>}
    [] media_type = "documents" ->
        {<<"p", "d", "f">>,
         <<"d", "o", "c">>,
         <<"d", "o", "c", "x">>,
         <<"x", "l", "s">>,
         <<"x", "l", "s", "x">>,
         <<"p", "p", "t">>,
         <<"p", "p", "t", "x">>,
         <<"t", "x", "t">>,
         <<"z", "i", "p">>,
         <<"r", "a", "r">>,
         <<"7", "z">>}
    [] media_type = "audio" ->
        {<<"m", "p", "3">>,
         <<"w", "a", "v">>,
         <<"o", "g", "g">>,
         <<"m", "4", "a">>,
         <<"a", "a", "c">>,
         <<"f", "l", "a", "c">>}
    [] media_type = "video" ->
        {<<"m", "p", "4">>,
         <<"a", "v", "i">>,
         <<"m", "o", "v">>,
         <<"m", "k", "v">>,
         <<"w", "e", "b", "m">>,
         <<"3", "g", "p">>,
         <<"f", "l", "v">>}
    [] media_type = "stickers" ->
        {<<"w", "e", "b", "p">>}

\* str(SUPPORTED_FORMATS[media_type]), as the f-string of validate_file
\* renders the list.
SupportedFormatsText(media_type) ==
  CASE media_type = "images" -> "['jpg', 'jpeg', 'png', 'gif', 'webp']"
    [] media_type = "documents" -> "['pdf', 'doc', 'docx', 'xls', 'xlsx', 'ppt', 'pptx', 'txt', 'zip', 'rar', '7z']"
    [] media_type = "audio" -> "['mp3', 'wav', 'ogg', 'm4a', 'aac', 'flac']"
    [] media_type = "video" -> "['mp4', 'avi', 'mov', 'mkv', 'webm', '3gp', 'flv']"
    [] media_type = "stickers" -> "['webp']"

MiB == 1048576

\* FILE_SIZE_LIMITS[media_type]
FILE_SIZE_LIMITS(media_type) ==
  CASE media_type = "images" -> 16 * 1024 * 1024
    [] media_type = "documents" -> 32 * 1024 * 1024
    [] media_type = "audio" -> 16 * 1024 * 1024
    [] media_type = "video" -> 64 * 1024 * 1024
    [] media_type = "stickers" -> 1 * 1024 * 1024

\* str(FILE_SIZE_LIMITS[media_type] / (1024 * 1024)): a float, so a whole
\* number of megabytes is printed with one decimal ("16.0").
SizeMbText(media_type) ==
  LET limit == FILE_SIZE_LIMITS(media_type)
  IN  IF limit % MiB = 0 THEN ToString(limit \div MiB) \o ".0"
      ELSE ToString(limit \div MiB) \o ".?"

\* ------------------------------------------------------- secure_filename

SafeChars == Digits \cup UpperCase \cup LowerCase \cup {"_", ".", "-"}

\* "_".join(s.split()) for a string without leading or trailing blanks:
\* every run of blanks becomes one underscore.
RECURSIVE JoinBlanks(_)
JoinBlanks(s) ==
  IF s = <<>> THEN <<>>
  ELSE IF Head(s) = " "
       THEN IF Len(s) > 1 /\ s[2] = " " THEN JoinBlanks(Tail(s))
            ELSE <<"_">> \o JoinBlanks(Tail(s))
       ELSE <<Head(s)>> \o JoinBlanks(Tail(s))

\* werkzeug's secure_filename: path separators become blanks, runs of
\* blanks become "_", characters outside [A-Za-z0-9_.-] are dropped, and
\* leading and trailing "." and "_" are stripped.
secure_filename(name) ==
  LET noSep == [i \in 1..Len(name) |-> IF name[i] = "/" THEN " " ELSE name[i]]
      joined == JoinBlanks(Strip(noSep, {" "}))
      ascii == SelectSeq(joined, LAMBDA c : c \in SafeChars)
  IN  Strip(ascii, {".", "_"})

\* ---------------------------------------------------------- validate_file

\* An upload: present = FALSE is request.files.get('file') = None; size is
\* the length of its stream and position the offset the stream is at.
NoFile ==
  [present |-> FALSE, filename |-> <<>>, size |-> 0, content_type |-> "",
   position |-> 0]

\* file.seek(0, os.SEEK_END)
SeekEnd(file) == [file EXCEPT !.position = file.size]

\* file.tell()
Tell(file) == file.position

LeftWhereItIs(file) == file

\* file.seek(0)
Rewind(file) == [file EXCEPT !.position = 0]

\* file.read(), as requests reads the upload to build the body of its
\* call: the number of bytes from the offset of the stream to its end.
BytesRead(file) == file.size - file.position

Invalid(message) ==
  [ok |-> FALSE, filename |-> <<>>, size |-> 0, message |-> message]

validate_file_size_first(file, media_type) ==
  IF ~file.present \/ file.filename = <<>>
  THEN Invalid(<<"No file provided">>)
  ELSE LET filename == secure_filename(file.filename)
           extension == Lower(RSplitLast(filename, "."))
       IN  IF ~Contains(filename, ".")
           THEN Invalid(<<"File must have an extension">>)
           ELSE IF Tell(SeekEnd(file)) > FILE_SIZE_LIMITS(media_type)
           THEN Invalid(<<"File too large. Max size for ", media_type, ": ",
                          SizeMbText(media_type), "MB">>)
           ELSE IF extension \notin SUPPORTED_FORMATS(media_type)
           THEN Invalid(<<"Invalid file type. Allowed: ",
                          SupportedFormatsText(media_type)>>)
           ELSE [ok |-> TRUE, filename |-> filename,
                 size |-> Tell(SeekEnd(file)), message |-> <<>>]

\* ok = FALSE stands for the ValueError raised, with its message.
validate_file(file, media_type) ==
  IF ~file.present \/ file.filename = <<>>
  THEN Invalid(<<"No file provided">>)
  ELSE LET filename == secure_filename(file.filename)
           extension == Lower(RSplitLast(filename, "."))
       IN  IF ~Contains(filename, ".")
           THEN Invalid(<<"File must have an extension">>)
           ELSE IF extension \notin SUPPORTED_FORMATS(media_type)
           THEN Invalid(<<"Invalid file type. Allowed: ",
                          SupportedFormatsText(media_type)>>)
           ELSE IF Tell(SeekEnd(file)) > FILE_SIZE_LIMITS(media_type)
           THEN Invalid(<<"File too large. Max size for ", media_type, ": ",
                          SizeMbText(media_type), "MB">>)
           ELSE [ok |-> TRUE, filename |-> filename,
                 size |-> Tell(SeekEnd(file)), message |-> <<>>]

\* validate_file has made its three seek and tell calls: it has returned or
\* has raised the last of its four errors.
SizeMeasured(result) ==
  \/ result.ok
  \/ result.message # <<>> /\ Head(result.message) = "File too large. Max size for "

\* The upload as validate_file leaves it: the function moves the offset of
\* the stream it is given.
StreamAfterValidation(file, media_type) ==
  IF SizeMeasured(validate_file(file, media_type))
  THEN Rewind(SeekEnd(file))
  ELSE file

\* ------------------------------------------------ save_file, cleanup_file

\* UPLOAD_FOLDER holds the files of the directory app.config['UPLOAD_FOLDER']
\* as records [path, bytes].

\* os.path.join(app.config['UPLOAD_FOLDER'], filename)
FilePath(filename) == <<"uploads", filename>>

\* The directory after file.save(filepath): the file at filepath is created
\* or, if there is one, overwritten.
Saved(folder, filepath, bytes) ==
  {f \in folder : f.path # filepath} \cup {[path |-> filepath, bytes |-> bytes]}

\* The content of the upload of a request.
BytesOf(w) == "bytes of " \o w

\* The directory after cleanup_file(filepath): os.remove(filepath) if the
\* path exists.
Removed(folder, filepath) == {f \in folder : f.path # filepath}

\* ------------------------------------------------------------ the backend

\* What the Messaging Backend does with a call issued now: "up" answers it,
\* "down" lets it run into its timeout or accepts no connection.
BackendStates == {"up", "down"}

NoBody == [json |-> FALSE, content |-> ""]

\* Bodies the backend answers a send call with: a JSON object or a body that
\* is not JSON (an HTML error page of a proxy in front of it).
SendBodies == {[json |-> TRUE, content |-> "{status, message}"],
               [json |-> FALSE, content |-> "<html>"]}

\* Bodies the backend answers GET /api/status with.
StatusBodies == {[json |-> TRUE, content |-> "{bot_connected: true}"],
                 [json |-> TRUE, content |-> "{bot_connected: false}"],
                 [json |-> FALSE, content |-> "<html>"]}

SendStatuses == {200, 400, 500}

ProbeStatuses == {200, 500}

Response(status, body) == [kind |-> "response", status |-> status, body |-> body]

Raised(kind) == [kind |-> kind, status |-> 0, body |-> NoBody]

NoOutcome == Raised("none")

OutcomesWithoutTimeout(statuses, bodies) ==
  CASE backend = "down" -> {}
    [] backend = "up" ->
         {Response(st, b) : st \in statuses, b \in bodies} \cup {Raised("other")}

\* The outcomes of requests.get / requests.post in the present state of the
\* backend: a response, or requests.exceptions.Timeout, ConnectionError, or
\* another exception of the HTTP library ("other": the connection breaks
\* while the answer is read).
Outcomes(statuses, bodies) ==
  CASE backend = "down" -> {Raised("timeout"), Raised("connection")}
    [] backend = "up" ->
         {Response(st, b) : st \in statuses, b \in bodies} \cup {Raised("other")}

\* data.get('bot_connected', False) of the parsed status body.
BotConnected(body) == body.content = "{bot_connected: true}"

\* -------------------------------------------------- send_to_whatsapp_api

\* History: headers[w] holds the headers of the last HTTP call thread w has
\* issued for its request; refreshed records that some probe of a refresh
\* has been answered 200 with a status body.
NotIssued == [issued |-> FALSE, fields |-> {}]

Issued(fields) == [issued |-> TRUE, fields |-> fields]

AlwaysKeyHeader(key) == {<<"X-API-Key", key>>}

\* {'X-API-Key': key} if key else {}
ApiKeyHeader(key) == IF key # "" THEN {<<"X-API-Key", key>>} ELSE {}

\* The headers of the probe of check_whatsapp_api_status.
ProbeHeaders == ApiKeyHeader(api_key)

\* The headers send_to_whatsapp_api builds: the key if configured, and the
\* content type of a POST without files.
ClientHeaders(method, files) ==
  ApiKeyHeader(api_key)
  \cup (IF method = "POST" /\ ~files
        THEN {<<"Content-Type", "application/json">>}
        ELSE {})

\* The message of the Exception that send_to_whatsapp_api raises for each
\* exception of the HTTP library.
ClientError(kind) ==
  CASE kind = "timeout" ->
         <<"WhatsApp API timeout after ", ToString(TimeoutSeconds), " seconds">>
    [] kind = "connection" ->
         <<"Cannot connect to WhatsApp API at ", WHATSAPP_API_BASE_URL>>
    [] OTHER -> <<"WhatsApp API error: ", "str(e)">>

\* ---------------------------------------------------------------- state

SendEndpoints == {"send-message", "send-image", "send-document",
                  "send-audio", "send-video", "send-sticker"}

MediaEndpoints == SendEndpoints \ {"send-message"}

RefreshHandlers == {"index", "status", "health"}

\* The media_type each media handler passes to validate_file.
MediaTypeOf(endpoint) ==
  CASE endpoint = "send-image" -> "images"
    [] endpoint = "send-document" -> "documents"
    [] endpoint = "send-audio" -> "audio"
    [] endpoint = "send-video" -> "video"
    [] endpoint = "send-sticker" -> "stickers"

\* The word each handler puts in its "Failed to send ..." message.
NounOf(endpoint) ==
  CASE endpoint = "send-message" -> "message"
    [] endpoint = "send-image" -> "image"
    [] endpoint = "send-document" -> "document"
    [] endpoint = "send-audio" -> "audio"
    [] endpoint = "send-video" -> "video"
    [] endpoint = "send-sticker" -> "sticker"

\* send_image, send_document and send_video read and forward a caption;
\* send_audio and send_sticker do not.
TakesCaption(endpoint) == endpoint \in {"send-image", "send-document", "send-video"}

NoInput == [json |-> "", phone |-> <<>>, message |-> "", caption |-> "",
            file |-> NoFile, content_length |-> 0]

NotForwarded == [sent |-> FALSE, endpoint |-> "", phone |-> <<>>, message |-> "",
                 has_caption |-> FALSE, caption |-> "", filename |-> <<>>,
                 content_type |-> "", bytes |-> 0]

NoProbe == [branch |-> "none", bot_connected |-> FALSE]

NoResponse == [code |-> 0, relayed |-> FALSE, message |-> <<>>, body |-> NoBody]

NoObservation == [api_available |-> FALSE, connected |-> FALSE, last_check |-> 0]

\* A request that has staged no file.
NotStaged == [phase |-> "none", filename |-> "", path |-> <<>>, bytes |-> ""]

NoPhoneResult == [ok |-> FALSE, value |-> <<>>]

\* No function under examination.
NoUnit == [fn |-> "", phone |-> <<>>, file |-> NoFile, media_type |-> "",
           returned |-> FALSE, phone_result |-> NoPhoneResult,
           file_result |-> Invalid(<<>>), stream |-> NoFile]

\* A response the gateway builds itself: jsonify({... "message": message}), code
Own(code, message) ==
  [code |-> code, relayed |-> FALSE, message |-> message, body |-> NoBody]

\* response.json(), response.status_code of an upstream response with a
\* JSON body.
Relay(outcome) ==
  [code |-> outcome.status, relayed |-> TRUE, message |-> <<>>,
   body |-> outcome.body]

\* The state of the server after the module has been loaded: the cache as
\* its dict display initialises it, and every request thread idle.
ServerInit ==
  /\ LOCAL_BOT_STATUS = [connected |-> FALSE, last_check |-> 0,
                         api_available |-> FALSE]
  /\ backend \in BackendStates
  /\ now = 0
  /\ window = [w \in Workers |-> {}]
  /\ torn = [w \in Workers |-> FALSE]
  /\ pc = [w \in Workers |-> "idle"]
  /\ handler = [w \in Workers |-> ""]
  /\ inp = [w \in Workers |-> NoInput]
  /\ gate = [w \in Workers |-> "unread"]
  /\ probe = [w \in Workers |-> NoProbe]
  /\ calls = [w \in Workers |-> 0]
  /\ upstream = [w \in Workers |-> NoOutcome]
  /\ forwarded = [w \in Workers |-> NotForwarded]
  /\ observed = [w \in Workers |-> NoObservation]
  /\ resp = [w \in Workers |-> NoResponse]
  /\ UPLOAD_FOLDER = {}
  /\ staged = [w \in Workers |-> NotStaged]
  /\ headers = [w \in Workers |-> NotIssued]
  /\ refreshed = FALSE

\* WHATSAPP_API_CONFIG['api_key'] is os.getenv('WHATSAPP_API_KEY', ''): no
\* secret is configured unless the environment sets one.
Init ==
  /\ ServerInit
  /\ unit = NoUnit
  /\ api_key = ""

\* --------------------------------------------------------------- inputs

\* "081234567890", "6281234567890", "+62 812-3456-7890" and "123"; the empty
\* string stands for a phone field that is absent or empty (both fail the
\* test "not phone").
PhoneLocal == <<"0", "8", "1", "2", "3", "4", "5", "6", "7", "8", "9", "0">>

PhoneIntl == <<"6", "2", "8", "1", "2", "3", "4", "5", "6", "7", "8", "9", "0">>

PhoneFormatted == <<"+", "6", "2", " ", "8", "1", "2", "-", "3", "4", "5", "6", "-", "7", "8", "9", "0">>

PhoneShort == <<"1", "2", "3">>

PhoneMissing == <<>>

Phones == {PhoneLocal, PhoneIntl, PhoneShort, PhoneMissing}

\* Bodies of POST /api/send-message: json = "malformed" makes
\* request.get_json() raise, json = "empty" makes it return a falsy value.
TextInputs ==
  {[json |-> "object", phone |-> p, message |-> "hi", caption |-> "",
    file |-> NoFile, content_length |-> 64] : p \in Phones}
  \cup {[json |-> "object", phone |-> PhoneLocal, message |-> "", caption |-> "",
         file |-> NoFile, content_length |-> 64]}
  \cup {[json |-> j, phone |-> <<>>, message |-> "", caption |-> "",
         file |-> NoFile, content_length |-> 2] : j \in {"empty", "malformed"}}

\* An upload whose name carries the first extension the class allows
\* ("photo.jpg" for images) and one with an extension no class allows.
GoodName(media_type) ==
  CASE media_type = "images" -> <<"p", "h", "o", "t", "o", ".", "j", "p", "g">>
    [] media_type = "documents" -> <<"r", "e", "p", "o", "r", "t", ".", "p", "d", "f">>
    [] media_type = "audio" -> <<"v", "o", "i", "c", "e", ".", "m", "p", "3">>
    [] media_type = "video" -> <<"c", "l", "i", "p", ".", "m", "p", "4">>
    [] media_type = "stickers" -> <<"i", "c", "o", "n", ".", "w", "e", "b", "p">>

BadName == <<"p", "h", "o", "t", "o", ".", "b", "m", "p">>

Upload(name, size) ==
  [present |-> TRUE, filename |-> name, size |-> size,
   content_type |-> "application/octet-stream", position |-> 0]

\* A multipart form: its Content-Length is the length of the file plus the
\* boundaries, the part headers and the other fields.
Form(phone, caption, file) ==
  [json |-> "", phone |-> phone, message |-> "", caption |-> caption,
   file |-> file, content_length |-> file.size + 512]

\* Forms of the media endpoints: a valid upload with a caption, an upload of
\* an unsupported type, and a form without phone.
MediaInputs(endpoint) ==
  LET good == Upload(GoodName(MediaTypeOf(endpoint)), 2048)
  IN  {Form(PhoneLocal, "look", good),
       Form(PhoneLocal, "", Upload(BadName, 2048)),
       Form(PhoneMissing, "", good)}

\* Forms whose upload is at the size limit of its class, one byte above it,
\* and of 70 MiB, and an upload of an unsupported type above the limit.
SizedInputs(endpoint) ==
  LET media_type == MediaTypeOf(endpoint)
      limit == FILE_SIZE_LIMITS(media_type)
  IN  {Form(PhoneLocal, "", Upload(GoodName(media_type), size)) :
         size \in {limit, limit + 1, 70 * 1024 * 1024}}
      \cup {Form(PhoneLocal, "", Upload(BadName, limit + 1))}

Inputs(endpoint) ==
  IF endpoint = "send-message" THEN TextInputs ELSE MediaInputs(endpoint)

\* ------------------------------------------------------- send handlers

\* "if not LOCAL_BOT_STATUS['api_available']": the availability gate that
\* opens every send handler.
GateAlwaysOpen(status) == TRUE

GateOpen(status) == status.api_available

Unavailable ==
  Own(503, <<"WhatsApp API not available at ", WHATSAPP_API_BASE_URL>>)

Proceed == [returns |-> FALSE, resp |-> NoResponse]

Return(r) == [returns |-> TRUE, resp |-> r]

ForwardUnchecked(endpoint, in) == Proceed

ParseWithoutValueErrorClause(endpoint, in) ==
  IF endpoint = "send-message"
  THEN IF in.json = "malformed"
       THEN Return(Own(500, <<"Failed to send message: ", "400 Bad Request">>))
       ELSE IF in.json = "empty"
       THEN Return(Own(400, <<"Invalid JSON data">>))
       ELSE IF in.phone = <<>>
       THEN Return(Own(400, <<"Phone number required">>))
       ELSE IF in.message = ""
       THEN Return(Own(400, <<"Message text required">>))
       ELSE Proceed
  ELSE IF in.content_length > MAX_CONTENT_LENGTH
       THEN Return(Own(500, <<"Failed to send " \o NounOf(endpoint) \o ": ",
                              "str(RequestEntityTooLarge)">>))
       ELSE IF in.phone = <<>>
       THEN Return(Own(400, <<"Phone number required">>))
       ELSE LET v == validate_file(in.file, MediaTypeOf(endpoint))
            IN  IF ~v.ok
                THEN Return(Own(500, <<"Failed to send " \o NounOf(endpoint) \o ": ">>
                                     \o v.message))
                ELSE Proceed

\* The part of a send handler between the gate and the forward: the early
\* returns of send_message, and of the media handlers (a missing phone, a
\* ValueError of validate_file caught by "except ValueError"). A media
\* handler first reads request.form, which parses the body: when the
\* Content-Length exceeds MAX_CONTENT_LENGTH the parser raises
\* RequestEntityTooLarge inside the handler's try block, where "except
\* Exception" catches it (it is no ValueError). The bodies of send_message
\* that are enumerated are all below that length.
Parse(endpoint, in) ==
  IF endpoint = "send-message"
  THEN IF in.json = "malformed"
       THEN Return(Own(500, <<"Failed to send message: ", "400 Bad Request">>))
       ELSE IF in.json = "empty"
       THEN Return(Own(400, <<"Invalid JSON data">>))
       ELSE IF in.phone = <<>>
       THEN Return(Own(400, <<"Phone number required">>))
       ELSE IF in.message = ""
       THEN Return(Own(400, <<"Message text required">>))
       ELSE Proceed
  ELSE IF in.content_length > MAX_CONTENT_LENGTH
       THEN Return(Own(500, <<"Failed to send " \o NounOf(endpoint) \o ": ",
                              "str(RequestEntityTooLarge)">>))
       ELSE IF in.phone = <<>>
       THEN Return(Own(400, <<"Phone number required">>))
       ELSE LET v == validate_file(in.file, MediaTypeOf(endpoint))
            IN  IF ~v.ok THEN Return(Own(400, v.message)) ELSE Proceed

\* What the handler hands to send_to_whatsapp_api: send_message passes the
\* parsed body as it came; a media handler passes data = {'phone': phone}
\* (plus the caption when the handler takes one and it is not empty) and
\* files = {'file': (filename, file, file.content_type)}.
Payload(endpoint, in) ==
  IF endpoint = "send-message"
  THEN [sent |-> TRUE, endpoint |-> endpoint, phone |-> in.phone,
        message |-> in.message, has_caption |-> FALSE, caption |-> "",
        filename |-> <<>>, content_type |-> "", bytes |-> 0]
  ELSE LET v == validate_file(in.file, MediaTypeOf(endpoint))
           cap == TakesCaption(endpoint) /\ in.caption # ""
       IN  [sent |-> TRUE, endpoint |-> endpoint, phone |-> in.phone,
            message |-> "", has_caption |-> cap,
            caption |-> IF cap THEN in.caption ELSE "",
            filename |-> v.filename, content_type |-> in.file.content_type,
            bytes |-> BytesRead(StreamAfterValidation(in.file,
                                                       MediaTypeOf(endpoint)))]

\* The response of a send handler for an outcome of its forward:
\* "return response.json(), response.status_code", where response.json()
\* raises a JSONDecodeError (a ValueError) on a body that is not JSON, and
\* the except clauses of the handler.
HandlerResult(endpoint, outcome) ==
  IF outcome.kind = "response"
  THEN IF outcome.body.json THEN Relay(outcome)
       ELSE IF endpoint = "send-message"
       THEN Own(500, <<"Failed to send message: ", "str(JSONDecodeError)">>)
       ELSE Own(400, <<"str(JSONDecodeError)">>)
  ELSE Own(500, <<"Failed to send " \o NounOf(endpoint) \o ": ">>
                \o ClientError(outcome.kind))

\* Where a send handler goes once send_to_whatsapp_api has returned or
\* raised: it returns its response.
RetryAfterCall(outcome) == IF outcome.kind = "response" THEN "done" ELSE "forward"

AfterCall(outcome) == "done"

\* The gate and the thread-local code up to the forward. History: gate[w]
\* is what the cache marked when the handler consulted it.
SendGate(w, endpoint, in) ==
  /\ pc[w] = "idle"
  /\ handler' = [handler EXCEPT ![w] = endpoint]
  /\ inp' = [inp EXCEPT ![w] = in]
  /\ gate' = [gate EXCEPT ![w] =
                IF LOCAL_BOT_STATUS.api_available THEN "open" ELSE "closed"]
  /\ IF ~GateOpen(LOCAL_BOT_STATUS)
     THEN /\ resp' = [resp EXCEPT ![w] = Unavailable]
          /\ pc' = [pc EXCEPT ![w] = "done"]
     ELSE IF Parse(endpoint, in).returns
     THEN /\ resp' = [resp EXCEPT ![w] = Parse(endpoint, in).resp]
          /\ pc' = [pc EXCEPT ![w] = "done"]
     ELSE /\ resp' = resp
          /\ pc' = [pc EXCEPT ![w] = "forward"]
  /\ UNCHANGED <<LOCAL_BOT_STATUS, backend, now, window, torn, probe, calls, upstream,
                 forwarded, observed>>
  /\ UNCHANGED <<UPLOAD_FOLDER, staged, unit, api_key, headers, refreshed>>

\* send_to_whatsapp_api(endpoint, 'POST', data, files) and the rest of the
\* handler, without the frame condition on the status cache.
ForwardCall(w) ==
  /\ pc[w] = "forward"
  /\ \E outcome \in Outcomes(SendStatuses, SendBodies) :
       /\ calls' = [calls EXCEPT ![w] = @ + 1]
       /\ upstream' = [upstream EXCEPT ![w] = outcome]
       /\ forwarded' = [forwarded EXCEPT ![w] = Payload(handler[w], inp[w])]
       /\ resp' = [resp EXCEPT ![w] = HandlerResult(handler[w], outcome)]
       /\ pc' = [pc EXCEPT ![w] = AfterCall(outcome)]
  /\ headers' = [headers EXCEPT ![w] =
                   Issued(ClientHeaders("POST", handler[w] \in MediaEndpoints))]
  /\ UNCHANGED <<backend, now, window, torn, handler, inp, gate, probe, observed>>
  /\ UNCHANGED <<staged, unit, api_key, refreshed>>

SendForwardMarksDown(w) ==
  /\ ForwardCall(w)
  /\ UNCHANGED UPLOAD_FOLDER
  /\ LOCAL_BOT_STATUS' =
       IF resp'[w].relayed THEN LOCAL_BOT_STATUS
       ELSE [LOCAL_BOT_STATUS EXCEPT !.api_available = FALSE]

SendForwardLeavesFile(w) ==
  /\ ForwardCall(w)
  /\ UNCHANGED LOCAL_BOT_STATUS
  /\ UPLOAD_FOLDER' =
       IF handler[w] \in MediaEndpoints /\ ~resp'[w].relayed
       THEN Saved(UPLOAD_FOLDER, FilePath(forwarded'[w].filename), BytesOf(w))
       ELSE UPLOAD_FOLDER

\* A handler passes the upload to send_to_whatsapp_api as the stream it
\* received; it writes no file (no handler calls save_file).
SendForward(w) ==
  /\ ForwardCall(w)
  /\ UNCHANGED <<LOCAL_BOT_STATUS, UPLOAD_FOLDER>>

\* --------------------------------------------- check_whatsapp_api_status

\* The branch check_whatsapp_api_status takes for the outcome of its probe:
\* "success" (status 200 and a body response.json() parses), "else" (a
\* response with another status), "except" (an exception of requests.get, or
\* of response.json() on a 200 whose body is not JSON).
Branch(outcome) ==
  IF outcome.kind = "response" /\ outcome.status # 200 THEN "else"
  ELSE IF outcome.kind = "response" /\ outcome.body.json THEN "success"
  ELSE "except"

\* What a refresh keeps of its probe: the branch it is in and, in the
\* success branch, data.get('bot_connected', False).
Probed(outcome) ==
  [branch |-> Branch(outcome),
   bot_connected |-> Branch(outcome) = "success" /\ BotConnected(outcome.body)]

\* The three values a refresh stores, by branch.
ConnectedToStore(p) == p.branch = "success" /\ p.bot_connected

AvailableAfterAnyResponse(p) == p.branch # "except"

AvailableToStore(p) == p.branch = "success"

\* The success and the except branch assign last_check; the else branch
\* returns without assigning it.
WritesLastCheck(p) == p.branch # "else"

\* What the handler does once its refresh has returned.
AfterRefresh(h) ==
  CASE h = "index" -> "done"
    [] h = "health" -> "read_available"
    [] h = "status" -> "call_status"

\* The threads that have read a part of the cache for their response and
\* have not read all of it yet.
Reading(w) ==
  pc[w] \in {"read_connected", "read_last_check", "status_read_last_check"}

\* The threads whose refresh has assigned a part of the cache and has not
\* assigned all of it yet.
Assigning(w) == pc[w] \in {"set_available", "set_last_check"}

\* History: window[w] collects, from the first read of a reader w to its
\* last, the complete triples the cache holds: the cache at the first read
\* if no refresh is assigning then (otherwise the reader is not followed),
\* and the cache as every refresh that ends meanwhile leaves it. With its
\* last read the reader sets torn[w] if what it has read is none of them.
CompleteNow ==
  IF \E v \in Workers : Assigning(v) THEN {} ELSE {LOCAL_BOT_STATUS}

\* The last assignment of a refresh: the thread goes on with its handler.
EndRefresh(w) ==
  /\ pc' = [pc EXCEPT ![w] = AfterRefresh(handler[w])]
  /\ resp' = [resp EXCEPT ![w] =
                IF handler[w] = "index" THEN Own(200, <<"HTML_TEMPLATE">>)
                ELSE @]
  /\ window' = [v \in Workers |->
                  IF Reading(v) /\ window[v] # {}
                  THEN window[v] \cup {LOCAL_BOT_STATUS'}
                  ELSE window[v]]

\* requests.get(f"{WHATSAPP_API_BASE_URL}/api/status", timeout=5), the first
\* statement of /, /api/status and /health.
Probe(w, h) ==
  /\ pc[w] = "idle"
  /\ handler' = [handler EXCEPT ![w] = h]
  /\ \E outcome \in Outcomes(ProbeStatuses, StatusBodies) :
       /\ probe' = [probe EXCEPT ![w] = Probed(outcome)]
       /\ refreshed' = (refreshed \/ Branch(outcome) = "success")
  /\ headers' = [headers EXCEPT ![w] = Issued(ProbeHeaders)]
  /\ pc' = [pc EXCEPT ![w] = "set_connected"]
  /\ UNCHANGED <<LOCAL_BOT_STATUS, backend, now, window, torn, inp, gate, calls, upstream,
                 forwarded, observed, resp>>
  /\ UNCHANGED <<UPLOAD_FOLDER, staged, unit, api_key>>

\* LOCAL_BOT_STATUS['connected'] = ...
SetConnected(w) ==
  /\ pc[w] = "set_connected"
  /\ LOCAL_BOT_STATUS' =
       [LOCAL_BOT_STATUS EXCEPT !.connected = ConnectedToStore(probe[w])]
  /\ pc' = [pc EXCEPT ![w] = "set_available"]
  /\ UNCHANGED <<backend, now, window, torn, handler, inp, gate, probe, calls, upstream,
                 forwarded, observed, resp>>
  /\ UNCHANGED <<UPLOAD_FOLDER, staged, unit, api_key, headers, refreshed>>

\* LOCAL_BOT_STATUS['api_available'] = ...
SetAvailable(w) ==
  /\ pc[w] = "set_available"
  /\ LOCAL_BOT_STATUS' =
       [LOCAL_BOT_STATUS EXCEPT !.api_available = AvailableToStore(probe[w])]
  /\ IF WritesLastCheck(probe[w])
     THEN /\ pc' = [pc EXCEPT ![w] = "set_last_check"]
          /\ UNCHANGED <<window, resp>>
     ELSE EndRefresh(w)
  /\ UNCHANGED <<backend, now, torn, handler, inp, gate, probe, calls, upstream,
                 forwarded, observed>>
  /\ UNCHANGED <<UPLOAD_FOLDER, staged, unit, api_key, headers, refreshed>>

\* LOCAL_BOT_STATUS['last_check'] = datetime.now(); the clock advances with
\* every reading of it.
SetLastCheck(w) ==
  /\ pc[w] = "set_last_check"
  /\ now < MaxTime
  /\ now' = now + 1
  /\ LOCAL_BOT_STATUS' = [LOCAL_BOT_STATUS EXCEPT !.last_check = now']
  /\ EndRefresh(w)
  /\ UNCHANGED <<backend, torn, handler, inp, gate, probe, calls, upstream, forwarded,
                 observed>>
  /\ UNCHANGED <<UPLOAD_FOLDER, staged, unit, api_key, headers, refreshed>>

\* ----------------------------------------------------------- health_check

\* The three reads of the cache that build the body of /health, in the
\* order of the dict display: 'available', 'bot_connected', 'last_check'.
HealthReadAvailable(w) ==
  /\ pc[w] = "read_available"
  /\ observed' = [observed EXCEPT ![w].api_available =
                                     LOCAL_BOT_STATUS.api_available]
  /\ pc' = [pc EXCEPT ![w] = "read_connected"]
  /\ window' = [window EXCEPT ![w] = CompleteNow]
  /\ UNCHANGED <<LOCAL_BOT_STATUS, backend, now, torn, handler, inp, gate,
                 probe, calls, upstream, forwarded, resp>>
  /\ UNCHANGED <<UPLOAD_FOLDER, staged, unit, api_key, headers, refreshed>>

HealthReadConnected(w) ==
  /\ pc[w] = "read_connected"
  /\ observed' = [observed EXCEPT ![w].connected = LOCAL_BOT_STATUS.connected]
  /\ pc' = [pc EXCEPT ![w] = "read_last_check"]
  /\ UNCHANGED <<LOCAL_BOT_STATUS, backend, now, window, torn, handler, inp, gate,
                 probe, calls, upstream, forwarded, resp>>
  /\ UNCHANGED <<UPLOAD_FOLDER, staged, unit, api_key, headers, refreshed>>

HealthReadLastCheck(w) ==
  /\ pc[w] = "read_last_check"
  /\ observed' = [observed EXCEPT ![w].last_check = LOCAL_BOT_STATUS.last_check]
  /\ resp' = [resp EXCEPT ![w] = Own(200, <<"healthy">>)]
  /\ pc' = [pc EXCEPT ![w] = "done"]
  /\ torn' = [torn EXCEPT ![w] = window[w] # {} /\ observed'[w] \notin window[w]]
  /\ window' = [window EXCEPT ![w] = {}]
  /\ UNCHANGED <<LOCAL_BOT_STATUS, backend, now, handler, inp, gate, probe,
                 calls, upstream, forwarded>>
  /\ UNCHANGED <<UPLOAD_FOLDER, staged, unit, api_key, headers, refreshed>>

\* ------------------------------------------------------------- bot_status

\* send_to_whatsapp_api('/api/status', 'GET') and response.json(): with a
\* JSON body the handler answers jsonify({**external_data, ...}), status
\* 200; an exception of either takes it to its except clause, status 503.
StatusCall(w) ==
  /\ pc[w] = "call_status"
  /\ \E outcome \in Outcomes(ProbeStatuses, StatusBodies) :
       IF outcome.kind = "response" /\ outcome.body.json
       THEN /\ resp' = [resp EXCEPT ![w] =
                          [code |-> 200, relayed |-> TRUE, message |-> <<>>,
                           body |-> outcome.body]]
            /\ pc' = [pc EXCEPT ![w] = "status_read_available"]
       ELSE /\ resp' = [resp EXCEPT ![w] =
                          Own(503, <<"Cannot connect to external WhatsApp API">>)]
            /\ pc' = [pc EXCEPT ![w] = "status_read_error"]
  /\ UNCHANGED <<LOCAL_BOT_STATUS, backend, now, window, torn, handler, inp, gate,
                 probe, calls, upstream, forwarded, observed>>
  /\ headers' = [headers EXCEPT ![w] = Issued(ClientHeaders("GET", FALSE))]
  /\ UNCHANGED <<UPLOAD_FOLDER, staged, unit, api_key, refreshed>>

\* "api_available": LOCAL_BOT_STATUS['api_available']
StatusReadAvailable(w) ==
  /\ pc[w] = "status_read_available"
  /\ observed' = [observed EXCEPT ![w].api_available =
                                     LOCAL_BOT_STATUS.api_available]
  /\ pc' = [pc EXCEPT ![w] = "status_read_last_check"]
  /\ window' = [window EXCEPT ![w] = CompleteNow]
  /\ UNCHANGED <<LOCAL_BOT_STATUS, backend, now, torn, handler, inp, gate,
                 probe, calls, upstream, forwarded, resp>>
  /\ UNCHANGED <<UPLOAD_FOLDER, staged, unit, api_key, headers, refreshed>>

\* "last_check": str(LOCAL_BOT_STATUS['last_check'])
StatusReadLastCheck(w) ==
  /\ pc[w] = "status_read_last_check"
  /\ observed' = [observed EXCEPT ![w].last_check = LOCAL_BOT_STATUS.last_check]
  /\ pc' = [pc EXCEPT ![w] = "done"]
  /\ torn' = [torn EXCEPT ![w] =
                /\ window[w] # {}
                /\ \A t \in window[w] :
                     \/ t.api_available # observed'[w].api_available
                     \/ t.last_check # observed'[w].last_check]
  /\ window' = [window EXCEPT ![w] = {}]
  /\ UNCHANGED <<LOCAL_BOT_STATUS, backend, now, handler, inp, gate, probe,
                 calls, upstream, forwarded, resp>>
  /\ UNCHANGED <<UPLOAD_FOLDER, staged, unit, api_key, headers, refreshed>>

\* The except clause: "api_available": False, and last_check read from the
\* cache.
StatusReadError(w) ==
  /\ pc[w] = "status_read_error"
  /\ observed' = [observed EXCEPT ![w] =
                    [api_available |-> FALSE, connected |-> FALSE,
                     last_check |-> LOCAL_BOT_STATUS.last_check]]
  /\ pc' = [pc EXCEPT ![w] = "done"]
  /\ UNCHANGED <<LOCAL_BOT_STATUS, backend, now, window, torn, handler, inp, gate,
                 probe, calls, upstream, forwarded, resp>>
  /\ UNCHANGED <<UPLOAD_FOLDER, staged, unit, api_key, headers, refreshed>>

\* --------------------------------------------------------------- api_info

\* GET /api: send_to_whatsapp_api('/api', 'GET'), relayed, or 503.
ApiInfo(w) ==
  /\ pc[w] = "idle"
  /\ handler' = [handler EXCEPT ![w] = "api"]
  /\ \E outcome \in Outcomes(ProbeStatuses, SendBodies) :
       resp' = [resp EXCEPT ![w] =
                  IF outcome.kind = "response" /\ outcome.body.json
                  THEN Relay(outcome)
                  ELSE Own(503, <<"Cannot connect to WhatsApp API: ">>
                                \o (IF outcome.kind = "response"
                                    THEN <<"str(JSONDecodeError)">>
                                    ELSE ClientError(outcome.kind)))]
  /\ pc' = [pc EXCEPT ![w] = "done"]
  /\ UNCHANGED <<LOCAL_BOT_STATUS, backend, now, window, torn, inp, gate, probe,
                 calls, upstream, forwarded, observed>>
  /\ headers' = [headers EXCEPT ![w] = Issued(ClientHeaders("GET", FALSE))]
  /\ UNCHANGED <<UPLOAD_FOLDER, staged, unit, api_key, refreshed>>

\* ------------------------------------------------------------ environment

\* The thread has returned its response and takes the next request.
Finish(w) ==
  /\ pc[w] = "done"
  /\ pc' = [pc EXCEPT ![w] = "idle"]
  /\ handler' = [handler EXCEPT ![w] = ""]
  /\ inp' = [inp EXCEPT ![w] = NoInput]
  /\ gate' = [gate EXCEPT ![w] = "unread"]
  /\ probe' = [probe EXCEPT ![w] = NoProbe]
  /\ calls' = [calls EXCEPT ![w] = 0]
  /\ upstream' = [upstream EXCEPT ![w] = NoOutcome]
  /\ forwarded' = [forwarded EXCEPT ![w] = NotForwarded]
  /\ observed' = [observed EXCEPT ![w] = NoObservation]
  /\ resp' = [resp EXCEPT ![w] = NoResponse]
  /\ window' = [window EXCEPT ![w] = {}]
  /\ torn' = [torn EXCEPT ![w] = FALSE]
  /\ UNCHANGED <<LOCAL_BOT_STATUS, backend, now>>
  /\ headers' = [headers EXCEPT ![w] = NotIssued]
  /\ UNCHANGED <<UPLOAD_FOLDER, staged, unit, api_key, refreshed>>

\* The backend goes down or comes back.
BackendChange ==
  /\ backend' \in BackendStates \ {backend}
  /\ UNCHANGED <<LOCAL_BOT_STATUS, now, window, torn, pc, handler, inp, gate,
                 probe, calls, upstream, forwarded, observed, resp>>
  /\ UNCHANGED <<UPLOAD_FOLDER, staged, unit, api_key, headers, refreshed>>

Next ==
  \/ \E w \in Workers : \E e \in SendEndpoints : \E in \in Inputs(e) :
       SendGate(w, e, in)
  \/ \E w \in Workers : SendForward(w)
  \/ \E w \in Workers : \E h \in RefreshHandlers : Probe(w, h)
  \/ \E w \in Workers : SetConnected(w)
  \/ \E w \in Workers : SetAvailable(w)
  \/ \E w \in Workers : SetLastCheck(w)
  \/ \E w \in Workers : HealthReadAvailable(w)
  \/ \E w \in Workers : HealthReadConnected(w)
  \/ \E w \in Workers : HealthReadLastCheck(w)
  \/ \E w \in Workers : StatusCall(w)
  \/ \E w \in Workers : StatusReadAvailable(w)
  \/ \E w \in Workers : StatusReadLastCheck(w)
  \/ \E w \in Workers : StatusReadError(w)
  \/ \E w \in Workers : ApiInfo(w)
  \/ \E w \in Workers : Finish(w)
  \/ BackendChange

Spec == Init /\ [][Next]_vars

\* ------------------------------------------------- one request at a time

\* The server with one request thread, which takes the requests one after
\* the other, and uploads of every size the limits distinguish.
SerialWorkers == {"t1"}

SerialInputs(endpoint) ==
  IF endpoint = "send-message" THEN TextInputs
  ELSE MediaInputs(endpoint) \cup SizedInputs(endpoint)

NextSerial ==
  \/ \E w \in SerialWorkers : \E e \in SendEndpoints : \E in \in SerialInputs(e) :
       SendGate(w, e, in)
  \/ \E w \in SerialWorkers : SendForward(w)
  \/ \E w \in SerialWorkers : \E h \in RefreshHandlers : Probe(w, h)
  \/ \E w \in SerialWorkers : SetConnected(w)
  \/ \E w \in SerialWorkers : SetAvailable(w)
  \/ \E w \in SerialWorkers : SetLastCheck(w)
  \/ \E w \in SerialWorkers : HealthReadAvailable(w)
  \/ \E w \in SerialWorkers : HealthReadConnected(w)
  \/ \E w \in SerialWorkers : HealthReadLastCheck(w)
  \/ \E w \in SerialWorkers : StatusCall(w)
  \/ \E w \in SerialWorkers : StatusReadAvailable(w)
  \/ \E w \in SerialWorkers : StatusReadLastCheck(w)
  \/ \E w \in SerialWorkers : StatusReadError(w)
  \/ \E w \in SerialWorkers : ApiInfo(w)
  \/ \E w \in SerialWorkers : Finish(w)
  \/ BackendChange

\* The secrets the environment may configure: none, or one.
ApiKeys == {"", "s3cret"}

InitSerial ==
  /\ ServerInit
  /\ unit = NoUnit
  /\ api_key \in ApiKeys

SpecSerial == InitSerial /\ [][NextSerial]_vars

\* What SendForward does to the position of its thread: the call of
\* send_to_whatsapp_api returns or raises with one of its outcomes, and the
\* handler goes to its return.
ForwardReturns(w) ==
  /\ pc[w] = "forward"
  /\ \E outcome \in Outcomes(SendStatuses, SendBodies) :
       pc' = [pc EXCEPT ![w] = AfterCall(outcome)]

\* The steps a request thread takes on its own once it has accepted a
\* request: the server runs every handler to its return.
Continue(w) ==
  \/ ForwardReturns(w)
  \/ SetConnected(w)
  \/ SetAvailable(w)
  \/ SetLastCheck(w)
  \/ HealthReadAvailable(w)
  \/ HealthReadConnected(w)
  \/ HealthReadLastCheck(w)
  \/ StatusCall(w)
  \/ StatusReadAvailable(w)
  \/ StatusReadLastCheck(w)
  \/ StatusReadError(w)

\* The server with one request thread that is never suspended for ever:
\* a thread that can move to the next position of its handler does so.
\* Nothing is assumed of the backend or of the arrival of requests.
SpecSerialFair ==
  /\ InitSerial
  /\ [][NextSerial]_vars
  /\ \A w \in SerialWorkers : WF_pc(Continue(w))

\* ------------------------------------- format_phone_number, validate_file

\* The two pure functions, applied to arguments drawn from bounded sets.

serverVars == <<LOCAL_BOT_STATUS, backend, now, window, torn,
                pc, handler, inp, gate, probe, calls, upstream, forwarded,
                observed, resp, UPLOAD_FOLDER, staged, api_key, headers,
                refreshed>>

\* n times the digit "8".
RECURSIVE Eights(_)
Eights(n) == IF n = 0 THEN <<>> ELSE <<"8">> \o Eights(n - 1)

\* How the phone strings begin: "", "0", "62", "+62 ", "6", "00", "062",
\* "(+62) ", "2", and a digit of another script alone and after "0".
PhonePrefixes ==
  {<<>>, <<"0">>, <<"6", "2">>, <<"+", "6", "2", " ">>, <<"6">>, <<"0", "0">>,
   <<"0", "6", "2">>, <<"(", "+", "6", "2", ")", " ">>, <<"2">>,
   <<"U+0663">>, <<"0", "U+0663">>}

\* A prefix and a run of digits, bare or written with a separator after
\* the prefix and a trailing blank.
RawPhones ==
  {pre \o Eights(n) : pre \in PhonePrefixes, n \in 0..MaxDigits}
  \cup {pre \o <<"-">> \o Eights(n) \o <<" ">> :
          pre \in PhonePrefixes, n \in 0..MaxDigits}
  \cup {PhoneLocal, PhoneIntl, PhoneFormatted, PhoneShort}

\* The first allowed extension of each class, not in lower case.
ShoutName(media_type) ==
  CASE media_type = "images" -> <<"p", "h", "o", "t", "o", ".", "J", "P", "G">>
    [] media_type = "documents" -> <<"r", "e", "p", "o", "r", "t", ".", "P", "d", "f">>
    [] media_type = "audio" -> <<"v", "o", "i", "c", "e", ".", "M", "P", "3">>
    [] media_type = "video" -> <<"c", "l", "i", "p", ".", "m", "P", "4">>
    [] media_type = "stickers" -> <<"i", "c", "o", "n", ".", "W", "E", "B", "P">>

\* "photo", ".jpg", "photo." and "my photo.tar.gz"
UploadNames(media_type) ==
  {GoodName(media_type), ShoutName(media_type), BadName,
   <<"p", "h", "o", "t", "o">>,
   <<".", "j", "p", "g">>,
   <<"p", "h", "o", "t", "o", ".">>,
   <<"m", "y", " ", "p", "h", "o", "t", "o", ".", "t", "a", "r", ".", "g", "z">>,
   <<>>}

UploadSizes(media_type) ==
  {0, 2048, FILE_SIZE_LIMITS(media_type), FILE_SIZE_LIMITS(media_type) + 1,
   70 * 1024 * 1024}

\* The streams validate_file is called with: at their start, as the form
\* parser hands them over, and at their end, as a read leaves them.
Uploads(media_type) ==
  {Upload(name, size) : name \in UploadNames(media_type),
                        size \in UploadSizes(media_type)}
  \cup {SeekEnd(Upload(name, size)) : name \in UploadNames(media_type),
                                     size \in UploadSizes(media_type)}
  \cup {NoFile}

InitPure ==
  /\ ServerInit
  /\ api_key = ""
  /\ \/ \E phone \in RawPhones :
          unit = [NoUnit EXCEPT !.fn = "format_phone_number", !.phone = phone]
     \/ \E media_type \in MediaTypes : \E file \in Uploads(media_type) :
          unit = [NoUnit EXCEPT !.fn = "validate_file", !.file = file,
                                !.media_type = media_type]

FormatPhoneNumber ==
  /\ unit.fn = "format_phone_number"
  /\ ~unit.returned
  /\ unit' = [unit EXCEPT !.returned = TRUE,
                          !.phone_result = format_phone_number(unit.phone)]
  /\ UNCHANGED serverVars

ValidateFile ==
  /\ unit.fn = "validate_file"
  /\ ~unit.returned
  /\ unit' = [unit EXCEPT !.returned = TRUE,
                          !.file_result = validate_file(unit.file, unit.media_type),
                          !.stream = StreamAfterValidation(unit.file,
                                                           unit.media_type)]
  /\ UNCHANGED serverVars

NextPure ==
  \/ FormatPhoneNumber
  \/ ValidateFile

SpecPure == InitPure /\ [][NextPure]_vars

\* ------------------------------------------------ save_file, cleanup_file

\* The two staging functions, called by concurrent requests the way a
\* handler that stages its upload calls them: save_file with the sanitized
\* name of the upload, then cleanup_file with the path save_file returned.
\* No handler of app.py calls them.

StagedNames == {"a.jpg", "b.jpg", "c.pdf", "d.mp4"}

stageFrame == <<LOCAL_BOT_STATUS, backend, now, window, torn,
                pc, handler, inp, gate, probe, calls, upstream, forwarded,
                observed, resp, unit, api_key, headers, refreshed>>

\* filepath = save_file(file, filename)
save_file(w, filename) ==
  /\ staged[w].phase = "none"
  /\ UPLOAD_FOLDER' = Saved(UPLOAD_FOLDER, FilePath(filename), BytesOf(w))
  /\ staged' = [staged EXCEPT ![w] =
                  [phase |-> "saved", filename |-> filename,
                   path |-> FilePath(filename), bytes |-> BytesOf(w)]]
  /\ UNCHANGED stageFrame

\* cleanup_file(filepath)
cleanup_file(w) ==
  /\ staged[w].phase = "saved"
  /\ UPLOAD_FOLDER' = Removed(UPLOAD_FOLDER, staged[w].path)
  /\ staged' = [staged EXCEPT ![w].phase = "released"]
  /\ UNCHANGED stageFrame

\* The request has returned; the thread takes the next one.
Returned(w) ==
  /\ staged[w].phase = "released"
  /\ staged' = [staged EXCEPT ![w] = NotStaged]
  /\ UNCHANGED UPLOAD_FOLDER
  /\ UNCHANGED stageFrame

NextStage ==
  \/ \E w \in Workers : \E filename \in StagedNames : save_file(w, filename)
  \/ \E w \in Workers : cleanup_file(w)
  \/ \E w \in Workers : Returned(w)

SpecStage == Init /\ [][NextStage]_vars

\* ================================================================ claims

SendRequest(w) == handler[w] \in SendEndpoints

\* The message names the configured backend address.
NamesBackend(message) ==
  \E i \in 1..Len(message) : message[i] = WHATSAPP_API_BASE_URL

\* The forward of the send request of w ended with the backend down.
BackendWasDown(w) == upstream[w].kind \in {"timeout", "connection"}

\* --------------------------------------------------------------------
\* C1. A send request that finds the cache marking the backend unreachable
\* when its handler consults it has returned 503 with a message naming the
\* backend address, has issued no HTTP call and has forwarded nothing, on
\* every endpoint, for every content, whatever refreshes run beside it.
C1_ClosedGateFailsFast ==
  \A w \in Workers :
    (SendRequest(w) /\ gate[w] = "closed") =>
      /\ pc[w] = "done"
      /\ resp[w] = Unavailable
      /\ resp[w].code = 503
      /\ NamesBackend(resp[w].message)
      /\ calls[w] = 0
      /\ ~forwarded[w].sent

\* A media request refused at the gate while the refresh of another thread
\* has meanwhile marked the backend reachable.
C1_Witness ==
  \E w \in Workers, v \in Workers :
    /\ w # v
    /\ handler[w] \in MediaEndpoints
    /\ gate[w] = "closed"
    /\ resp[w].code = 503
    /\ pc[v] = "set_last_check"
    /\ LOCAL_BOT_STATUS.api_available

\* --------------------------------------------------------------------
\* C2. A send request whose forward timed out or could not connect is
\* answered 503 with a message naming the backend address.
C2_BackendDownAnswers503 ==
  \A w \in Workers :
    (SendRequest(w) /\ pc[w] = "done" /\ BackendWasDown(w)) =>
      /\ resp[w].code = 503
      /\ NamesBackend(resp[w].message)

\* --------------------------------------------------------------------
\* C3. When the backend answers a forwarded send with a non-success status,
\* the response to the caller carries that status and that body, whether
\* the body is JSON or not.
C3_UpstreamErrorRelayed ==
  \A w \in Workers :
    (/\ SendRequest(w)
     /\ pc[w] = "done"
     /\ upstream[w].kind = "response"
     /\ upstream[w].status # 200) =>
      /\ resp[w].relayed
      /\ resp[w].code = upstream[w].status
      /\ resp[w].body = upstream[w].body

\* --------------------------------------------------------------------
\* C4. No send request issues more than one HTTP send call, whatever the
\* outcome of the first.
C4_AtMostOneCall == \A w \in Workers : calls[w] <= 1

\* A send request that has returned after its only call failed.
C4_Witness ==
  \E w \in Workers :
    /\ SendRequest(w)
    /\ pc[w] = "done"
    /\ calls[w] = 1
    /\ upstream[w].kind \in {"timeout", "connection", "other"}

\* --------------------------------------------------------------------
\* C5. The step that ends a refresh leaves the cache as the probe says: after
\* a successful probe connected, api_available and last_check reflect it;
\* after a failed probe (an exception or a status other than 200) connected
\* and api_available are false, and in both cases last_check has been set to
\* the clock reading of this refresh.
RefreshEnds(w) == Assigning(w) /\ pc'[w] \notin {"set_available", "set_last_check"}

C5_RefreshStoresProbe ==
  [][\A w \in Workers :
       RefreshEnds(w) =>
         /\ LOCAL_BOT_STATUS'.connected = ConnectedToStore(probe[w])
         /\ LOCAL_BOT_STATUS'.api_available = (probe[w].branch = "success")
         /\ now' > now
         /\ LOCAL_BOT_STATUS'.last_check = now']_vars

\* --------------------------------------------------------------------
\* C6. A send request is gated on a status obtained during that request: the
\* handler has probed the backend before it consults the gate, and no send
\* request is refused at the gate while the backend is reachable.
C6_GateUsesFreshStatus ==
  [][\A w \in Workers :
       (pc[w] = "idle" /\ handler'[w] \in SendEndpoints) =>
         /\ probe'[w] # NoProbe
         /\ (resp'[w] = Unavailable => backend # "up")]_vars

\* --------------------------------------------------------------------
\* C7. What a reader of the cache (/health, /api/status) reports is one of
\* the complete triples the cache held while it read: the triple before a
\* concurrent refresh or the triple after it, never fields of both.
C7_ReadersSeeCompleteTriple == \A w \in Workers : ~torn[w]

\* --------------------------------------------------------------------
\* C8. No step of a send handler (the gate, the forward through
\* send_to_whatsapp_api, whatever its outcome) changes the status cache.
C8_SendLeavesCache ==
  [][\A w \in Workers :
       (pc'[w] # pc[w] /\ handler'[w] \in SendEndpoints) =>
         LOCAL_BOT_STATUS' = LOCAL_BOT_STATUS]_vars

\* A send request whose forward failed while the cache still marks the
\* backend reachable.
C8_Witness ==
  \E w \in Workers :
    /\ SendRequest(w)
    /\ pc[w] = "done"
    /\ BackendWasDown(w)
    /\ LOCAL_BOT_STATUS.api_available

\* --------------------------------------------------------------------
\* C9. The recipient a send handler forwards is the normalized form of the
\* caller's phone string.
C9_ForwardsNormalizedPhone ==
  \A w \in Workers :
    (forwarded[w].sent /\ format_phone_number(inp[w].phone).ok) =>
      forwarded[w].phone = format_phone_number(inp[w].phone).value

\* --------------------------------------------------------------------
\* C10. A send request that passes the gate with a phone that does not
\* normalize to 10 to 15 digits is answered 400 and nothing is forwarded.
C10_InvalidPhoneRejected ==
  \A w \in Workers :
    (/\ SendRequest(w)
     /\ pc[w] = "done"
     /\ gate[w] = "open"
     /\ inp[w].phone # <<>>
     /\ ~format_phone_number(inp[w].phone).ok) =>
      /\ resp[w].code = 400
      /\ ~forwarded[w].sent

\* The request of w is a send request whose parsed body or form lacks a
\* required field: no phone, or, for a text message, no message or an empty
\* one (a JSON body that is the empty object lacks both).
LacksField(w) ==
  \/ /\ handler[w] = "send-message"
     /\ inp[w].json \in {"object", "empty"}
     /\ (inp[w].phone = <<>> \/ inp[w].message = "")
  \/ /\ handler[w] \in MediaEndpoints
     /\ inp[w].phone = <<>>

Normalized == unit.fn = "format_phone_number" /\ unit.returned

\* --------------------------------------------------------------------
\* C12. What format_phone_number returns for a phone string it accepts
\* consists of digits only, begins with "62", and is returned unchanged when
\* format_phone_number is applied to it.
C12_NormalizeIdempotent ==
  (Normalized /\ unit.phone_result.ok) =>
    LET out == unit.phone_result.value
    IN  /\ \A i \in 1..Len(out) : out[i] \in DecimalDigits
        /\ Len(out) >= 2
        /\ out[1] = "6"
        /\ out[2] = "2"
        /\ format_phone_number(out) = [ok |-> TRUE, value |-> out]

\* An accepted phone string written with separators that already begins
\* with 62.
C12_Witness ==
  /\ Normalized
  /\ unit.phone_result.ok
  /\ \E i \in 1..Len(unit.phone) : unit.phone[i] \notin DecimalDigits
  /\ StartsWith(StripNonDigits(unit.phone), <<"6", "2">>)

\* The positions of the digits of a phone string, and the number of digits
\* the 0 -> 62 / prepend-62 rule leaves it with: a leading 0 is replaced by
\* two digits, a leading 62 is kept, and otherwise two digits are added.
DigitPositions(raw) == {i \in 1..Len(raw) : raw[i] \in DecimalDigits}

NthDigit(raw, n) ==
  raw[CHOOSE i \in DigitPositions(raw) :
        Cardinality({j \in DigitPositions(raw) : j < i}) = n - 1]

DigitsAfterRule(raw) ==
  LET n == Cardinality(DigitPositions(raw))
  IN  IF n >= 1 /\ NthDigit(raw, 1) = "0" THEN n + 1
      ELSE IF n >= 2 /\ NthDigit(raw, 1) = "6" /\ NthDigit(raw, 2) = "2" THEN n
      ELSE n + 2

Validated == unit.fn = "validate_file" /\ unit.returned

\* The sanitized name ends, whatever the case of its letters, with a dot
\* and an extension the class allows.
EndsWithAllowedExtension(name, media_type) ==
  \E ext \in SUPPORTED_FORMATS(media_type) :
    /\ Len(name) > Len(ext)
    /\ name[Len(name) - Len(ext)] = "."
    /\ Lower(SubSeq(name, Len(name) - Len(ext) + 1, Len(name))) = ext

\* The error the checks of the validator yield when they are made in the
\* order no file, missing extension, unsupported type, too large ("" when
\* all four pass).
FirstFailure(file, media_type) ==
  IF ~file.present \/ file.filename = <<>> THEN "No file provided"
  ELSE IF ~Contains(secure_filename(file.filename), ".")
  THEN "File must have an extension"
  ELSE IF ~EndsWithAllowedExtension(secure_filename(file.filename), media_type)
  THEN "Invalid file type. Allowed: "
  ELSE IF file.size > FILE_SIZE_LIMITS(media_type)
  THEN "File too large. Max size for "
  ELSE ""

\* --------------------------------------------------------------------
\* C14. validate_file reports the first check that fails in the order no
\* file, missing extension, unsupported type, too large, and accepts the
\* upload when none fails; the extension is compared without regard to
\* case, and an extension outside the class's set is reported as
\* unsupported type whatever the size.
C14_ValidatorOrder ==
  Validated =>
    LET expected == FirstFailure(unit.file, unit.media_type)
    IN  /\ unit.file_result.ok <=> expected = ""
        /\ ~unit.file_result.ok => unit.file_result.message[1] = expected
        /\ (/\ unit.file.present
            /\ Contains(secure_filename(unit.file.filename), ".")
            /\ ~EndsWithAllowedExtension(secure_filename(unit.file.filename),
                                         unit.media_type)) =>
              unit.file_result.message =
                <<"Invalid file type. Allowed: ",
                  SupportedFormatsText(unit.media_type)>>

\* An upload of an unsupported type that is also above the size limit of
\* its class, rejected for its type.
C14_Witness ==
  /\ Validated
  /\ unit.file.filename = BadName
  /\ unit.file.size > FILE_SIZE_LIMITS(unit.media_type)
  /\ unit.file_result.message[1] = "Invalid file type. Allowed: "

\* The media request of w has returned after it found the gate open, with a
\* phone and an upload whose name its class allows.
MediaRequestPastGate(w) ==
  /\ handler[w] \in MediaEndpoints
  /\ pc[w] = "done"
  /\ gate[w] = "open"
  /\ inp[w].phone # <<>>
  /\ inp[w].file.filename = GoodName(MediaTypeOf(handler[w]))

\* The response is the file-too-large error of the validator, stating the
\* ceiling of the class in megabytes (printed as "16" or as "16.0").
TooLargeFor(r, media_type) ==
  /\ r.code = 400
  /\ Len(r.message) = 5
  /\ r.message[1] = "File too large. Max size for "
  /\ r.message[2] = media_type
  /\ r.message[4] \in {ToString(FILE_SIZE_LIMITS(media_type) \div MiB),
                        ToString(FILE_SIZE_LIMITS(media_type) \div MiB) \o ".0"}

\* --------------------------------------------------------------------
\* C15. For every media class, a send request whose upload is exactly as
\* long as the ceiling of the class is forwarded, and one whose upload is
\* one byte longer is answered with the file-too-large error stating that
\* ceiling.
C15_CeilingAcceptedOneOverRejected ==
  \A w \in Workers :
    MediaRequestPastGate(w) =>
      LET media_type == MediaTypeOf(handler[w])
          size == inp[w].file.size
      IN  /\ size = FILE_SIZE_LIMITS(media_type) =>
                forwarded[w].sent /\ forwarded[w].bytes = size
          /\ size = FILE_SIZE_LIMITS(media_type) + 1 =>
                TooLargeFor(resp[w], media_type) /\ ~forwarded[w].sent

\* --------------------------------------------------------------------
\* C16. A send request whose body is longer than 64 MiB is answered 413,
\* and nothing is forwarded for it (stated for the requests that find the
\* gate open; the others are answered 503 at the gate).
C16_OversizeBodyAnswered413 ==
  \A w \in Workers :
    (/\ SendRequest(w)
     /\ pc[w] = "done"
     /\ gate[w] = "open"
     /\ inp[w].content_length > MAX_CONTENT_LENGTH) =>
      /\ resp[w].code = 413
      /\ ~forwarded[w].sent

\* --------------------------------------------------------------------
\* C17. A video upload of 70 MiB sent to /api/send-video is answered 400
\* with the file-too-large error of the validator for the video class.
C17_LargeVideoAnswered400 ==
  \A w \in Workers :
    (/\ MediaRequestPastGate(w)
     /\ handler[w] = "send-video"
     /\ inp[w].file.size = 70 * 1024 * 1024) =>
      TooLargeFor(resp[w], "video")

\* --------------------------------------------------------------------
\* C18. No step of a send request, whatever its outcome, changes the set of
\* files in the upload storage area: when the request has returned the area
\* holds the files it held before.
C18_StorageAsBefore ==
  [][\A w \in Workers :
       (pc'[w] # pc[w] /\ handler'[w] \in SendEndpoints) =>
         UPLOAD_FOLDER' = UPLOAD_FOLDER]_vars

\* A media request that has returned after its forward timed out, and one
\* rejected by the validator, with no file in the storage area.
C18_Witness ==
  \E w \in Workers, v \in Workers :
    /\ handler[w] \in MediaEndpoints
    /\ pc[w] = "done"
    /\ forwarded[w].sent
    /\ upstream[w].kind = "timeout"
    /\ handler[v] \in MediaEndpoints
    /\ pc[v] = "done"
    /\ inp[v].file.filename = BadName
    /\ resp[v].code = 400
    /\ UPLOAD_FOLDER = {}

\* --------------------------------------------------------------------
\* C19. Two requests that have staged a file hold different storage paths,
\* also when their uploads carry the same name, and from save_file to
\* cleanup_file the path of a request holds the bytes of that request.
C19_StagedFilesKeptApart ==
  /\ \A w \in Workers, v \in Workers :
       (w # v /\ staged[w].phase = "saved" /\ staged[v].phase = "saved") =>
         staged[w].path # staged[v].path
  /\ \A w \in Workers :
       staged[w].phase = "saved" =>
         [path |-> staged[w].path, bytes |-> staged[w].bytes] \in UPLOAD_FOLDER

\* The send request of w has returned after a fault no error class of the
\* gateway anticipates: an exception of the HTTP library that is neither a
\* timeout nor a refused connection, or an upstream body that cannot be
\* decoded.
UnanticipatedFault(w) ==
  /\ SendRequest(w)
  /\ pc[w] = "done"
  /\ \/ upstream[w].kind = "other"
     \/ upstream[w].kind = "response" /\ ~upstream[w].body.json

\* The parts of a message that are the text of an exception.
ExceptionText == {"str(e)", "str(JSONDecodeError)", "str(RequestEntityTooLarge)"}

\* --------------------------------------------------------------------
\* C20. A send request that hits an unanticipated fault is answered 500
\* with a message that holds no exception text, and two such requests to
\* the same endpoint receive the same message whatever their faults.
C20_GenericFaultMessage ==
  /\ \A w \in Workers :
       UnanticipatedFault(w) =>
         /\ resp[w].code = 500
         /\ \A i \in 1..Len(resp[w].message) :
              resp[w].message[i] \notin ExceptionText
  /\ \A w \in Workers, v \in Workers :
       (/\ UnanticipatedFault(w)
        /\ UnanticipatedFault(v)
        /\ handler[w] = handler[v]) =>
         resp[w].message = resp[v].message

\* --------------------------------------------------------------------
\* C21. GET /api/status answers with a success status only when the probe
\* of its refresh succeeded, and answers 503 when the backend answered that
\* probe with a status other than 200.
C21_StatusSuccessOnlyAfterGoodProbe ==
  \A w \in Workers :
    (handler[w] = "status" /\ pc[w] = "done") =>
      /\ resp[w].code = 200 => probe[w].branch = "success"
      /\ probe[w].branch = "else" => resp[w].code = 503

\* --------------------------------------------------------------------
\* C22. The call a media handler forwards carries the caller's phone, the
\* file under its sanitized name, and the caller's caption if and only if
\* the caller supplied a non-empty one, on each of the five media endpoints.
C22_CaptionForwarded ==
  \A w \in Workers :
    (handler[w] \in MediaEndpoints /\ forwarded[w].sent) =>
      /\ forwarded[w].phone = inp[w].phone
      /\ forwarded[w].filename = secure_filename(inp[w].file.filename)
      /\ forwarded[w].has_caption <=> inp[w].caption # ""
      /\ forwarded[w].has_caption => forwarded[w].caption = inp[w].caption

\* The values of the shared-secret header among the headers of a call.
SecretsSent(fields) == {f[2] : f \in {g \in fields : g[1] = "X-API-Key"}}

\* --------------------------------------------------------------------
\* C23. Every HTTP call issued to the backend (the probe of a refresh, a
\* forwarded GET, a forwarded send) carries the shared-secret header if and
\* only if a non-empty secret is configured, and then with that secret as
\* its value.
C23_SecretHeaderIffConfigured ==
  \A w \in Workers :
    headers[w].issued =>
      SecretsSent(headers[w].fields) = (IF api_key # "" THEN {api_key} ELSE {})

\* With a secret configured: a probe, and a forwarded send, each carrying
\* it.
C23_Witness ==
  \E w \in Workers :
    /\ api_key # ""
    /\ handler[w] \in MediaEndpoints
    /\ calls[w] = 1
    /\ headers[w] = Issued({<<"X-API-Key", api_key>>})

\* The clock of the model ends at MaxTime: a refresh that is to store the
\* next reading of it has no step left.
ClockExhausted(w) == pc[w] = "set_last_check" /\ now = MaxTime

\* --------------------------------------------------------------------
\* C24. Every request a thread has accepted returns a response, whatever
\* the backend does: a call to a backend that does not answer ends with a
\* timeout or a connection failure, and the handler goes on to its return.
C24_EveryRequestReturns ==
  \A w \in SerialWorkers :
    (pc[w] # "idle") ~> (pc[w] = "done" \/ ClockExhausted(w))

\* A status request answered 503 after both of its calls failed against a
\* backend that is down.
C24_Witness ==
  \E w \in SerialWorkers :
    /\ handler[w] = "status"
    /\ pc[w] = "done"
    /\ probe[w].branch = "except"
    /\ resp[w].code = 503
    /\ backend = "down"

\* --------------------------------------------------------------------
\* C25. From the start of the process (cache unavailable, no probe at
\* startup), a send handler calls the backend only after some refresh has
\* had its probe answered with status 200: in a run without such a refresh
\* no send is forwarded, however long the backend has been reachable.
C25_ForwardOnlyAfterGoodProbe ==
  \A w \in Workers :
    (handler[w] \in SendEndpoints /\ (calls[w] > 0 \/ forwarded[w].sent)) =>
      refreshed

\* A send forwarded to the backend, after a refresh whose probe was
\* answered 200 has made the cache mark the backend available.
C25_Witness ==
  \E w \in Workers :
    /\ handler[w] \in SendEndpoints
    /\ gate[w] = "open"
    /\ forwarded[w].sent
    /\ calls[w] = 1
    /\ refreshed

\* A thread is inside check_whatsapp_api_status: its probe is issued and
\* the function has not returned.
RefreshInProgress(w) ==
  pc[w] \in {"set_connected", "set_available", "set_last_check"}

\* --------------------------------------------------------------------
\* C26. In every state in which no refresh is in progress, the cache does
\* not mark the bot connected while it marks the backend unavailable,
\* however the steps of concurrent refreshes interleave.
C26_ConnectedImpliesAvailable ==
  (\A w \in Workers : ~RefreshInProgress(w)) =>
    (LOCAL_BOT_STATUS.connected => LOCAL_BOT_STATUS.api_available)

\* The step in which bot_status puts "api_available" into the body of its
\* response, on the success path or in its except clause.
BuildsStatusResponse(w) ==
  /\ pc[w] \in {"status_read_available", "status_read_error"}
  /\ pc'[w] # pc[w]

\* --------------------------------------------------------------------
\* C27. The api_available that /api/status puts in its response is the
\* value the status cache holds when the response is built, on the success
\* path and on the 503 path.
C27_StatusReportsCache ==
  [][\A w \in Workers :
       BuildsStatusResponse(w) =>
         observed'[w].api_available = LOCAL_BOT_STATUS.api_available]_vars

\* The step with which check_whatsapp_api_status returns to the handler of
\* w; for "/" it is the step that completes the request.
RefreshReturns(w) ==
  /\ pc[w] \in {"set_connected", "set_available", "set_last_check"}
  /\ pc'[w] \notin {"set_connected", "set_available", "set_last_check"}

\* --------------------------------------------------------------------
\* C28. Once the refresh of a request to /, /health or /api/status has
\* returned after a probe answered 200 (with a body it could parse), and
\* no other refresh is in progress, the cache marks the backend available:
\* the value every send request consults, until the next refresh writes it,
\* to pass its gate and forward.
C28_ForwardedAfterGoodRefresh ==
  [][\A w \in Workers :
       ( /\ RefreshReturns(w)
         /\ probe[w].branch = "success"
         /\ \A v \in Workers \ {w} :
              pc'[v] \notin {"set_connected", "set_available", "set_last_check"} )
       => LOCAL_BOT_STATUS'.api_available]_vars

\* --------------------------------------------------------------------
\* C29. Wherever the stream of the upload stands when validate_file is
\* called, once the function has measured the size it leaves the stream at
\* offset 0, when it accepts the file and when it rejects it as too large;
\* the size it returns is the full length of the stream, and a read of the
\* stream then yields the complete upload.
C29_MeasuredWholeAndRewound ==
  (Validated /\ SizeMeasured(unit.file_result)) =>
    /\ unit.stream.position = 0
    /\ BytesRead(unit.stream) = unit.file.size
    /\ unit.file_result.ok => unit.file_result.size = unit.file.size
    /\ ~unit.file_result.ok => unit.file.size > FILE_SIZE_LIMITS(unit.media_type)

\* An upload of 2048 bytes whose stream stood at its end, accepted.
C29_Witness ==
  /\ Validated
  /\ unit.file_result.ok
  /\ unit.file.position = 2048
  /\ unit.file_result.size = 2048
  /\ unit.stream.position = 0

\* The handler of w has called validate_file and the function has raised
\* its ValueError.
ValidationFailed(w) ==
  /\ handler[w] \in MediaEndpoints
  /\ gate[w] = "open"
  /\ inp[w].content_length <= MAX_CONTENT_LENGTH
  /\ inp[w].phone # <<>>
  /\ ~validate_file(inp[w].file, MediaTypeOf(handler[w])).ok

\* --------------------------------------------------------------------
\* C30. A request to a send endpoint ends with one response and no
\* exception leaves its handler: the response is the status of the backend
\* relayed, or a 400, 500 or 503 of the gateway; before the handler returns
\* there is no response. When validate_file raises its ValueError the
\* response is 400 with the message of the error, never 500, and nothing
\* is forwarded.
C30_OneResponsePerSend ==
  \A w \in Workers :
    handler[w] \in SendEndpoints =>
      /\ pc[w] = "forward" => resp[w] = NoResponse
      /\ pc[w] = "done" =>
           /\ \/ /\ resp[w].relayed
                 /\ upstream[w].kind = "response"
                 /\ resp[w].code = upstream[w].status
              \/ /\ ~resp[w].relayed
                 /\ resp[w].code \in {400, 500, 503}
           /\ ValidationFailed(w) =>
                /\ resp[w] = Own(400, validate_file(inp[w].file,
                                                    MediaTypeOf(handler[w])).message)
                /\ ~forwarded[w].sent
                /\ calls[w] = 0

\* A media request answered 400 because validate_file rejected its upload.
C30_Witness ==
  \E w \in Workers :
    /\ pc[w] = "done"
    /\ ValidationFailed(w)
    /\ resp[w].code = 400
    /\ ~forwarded[w].sent

====
